---------------------------- MODULE Spec2Model ----------------------------
(***************************************************************************)
(* Webhook ingestion and cache revalidation of the CMS-backed site:        *)
(*   src/src/app/api/webhooks/build/route.ts  (POST /api/webhooks/build)   *)
(*   src/unnamed/part_004                     (lib/revalidation.ts)        *)
(*                                                                         *)
(* Text that the code inspects character by character (the signature       *)
(* header) is a sequence of one-character strings; paths and tags are      *)
(* strings.  Wall-clock fields (processingTime, timestamps) are left out:  *)
(* no decision of the code reads them.                                     *)
(***************************************************************************)
EXTENDS Integers, Sequences, FiniteSets, TLC

VARIABLES
    request,             \* the HTTP request being delivered to POST, or NoRequest
    response,            \* the HTTP response POST produced for it, or NoResponse
    revalidationResult,  \* what handleRevalidation returned, or NoResult
    cachePaths,          \* paths next/cache invalidated while handling request
    cacheTags,           \* tags next/cache invalidated while handling request
    thrown,              \* whether a next/cache call threw while handling request
    deployHooks,         \* WebhookManager.config.deployHooks: environment -> url
    deploymentQueue,     \* WebhookManager.deploymentQueue: environment -> timer
    timers,              \* every timer setTimeout created, by handle 1, 2, ...
    inflight,            \* the triggerDeploy calls awaiting their fetch
    settled,             \* the triggerDeploy call that returned in the last step
    deployments,         \* DeploymentMonitor.deployments, in insertion order
    lastCall,            \* the DeploymentMonitor operation that ran last
    monitorCalls,        \* how many operations of the monitor have run
    lifecycle,           \* how far the last operations are into the sequence
                         \* startDeployment, markBuilding, markReady of one id
    queried,             \* what GET /api/deployment/status answered in the
                         \* last step, or NoQuery
    batch,               \* the batchRevalidate call that has run, or NoBatch
    now                  \* the clock: Date.now() and the timers' time

webhookVars == <<request, response, revalidationResult, cachePaths, cacheTags,
                 thrown>>
deployVars  == <<deployHooks, deploymentQueue, timers, inflight, settled>>
monitorVars == <<deployments, lastCall, monitorCalls, lifecycle>>
otherVars   == <<queried, batch>>

vars == <<webhookVars, deployVars, monitorVars, otherVars, now>>

-----------------------------------------------------------------------------
(* Bounds of the model *)

\* raw bodies that differ only in trailing whitespace: 0..MaxPad blanks
MaxPad == 1
\* the next/cache call that throws is the k-th one, k in 1..MaxFailAt (0: none)
MaxFailAt == 5
\* queueDeployment is called at most MaxTimers times
MaxTimers == 3
\* the clock runs from 0 to MaxTime
MaxTime == 1
\* callers other than timers that await triggerDeploy at the same time
MaxManual == 1
\* DeploymentMonitor.maxHistory, 50 in the code: the model keeps the code's
\* comparison and runs it with a history of maxHistory records
maxHistory == 2
\* the DeploymentMonitor is called at most MaxOps times
MaxOps == 4
\* batchRevalidate gets at most MaxBatch operations
MaxBatch == 3

-----------------------------------------------------------------------------
(* JavaScript values *)

\* a property that is not there (undefined)
Absent == "<undefined>"

\* !!v for the string-or-undefined values of the model
Truthy(v) == v # Absent /\ v # ""

IndexOf(seq, v) == CHOOSE i \in 1..Len(seq) : seq[i] = v

Range(seq) == {seq[i] : i \in 1..Len(seq)}

-----------------------------------------------------------------------------
(* Hex text and byte buffers *)

HexLower == <<"0","1","2","3","4","5","6","7","8","9","a","b","c","d","e","f">>

\* the value of each hex digit, either case
HexValue ==
    ("0" :> 0) @@ ("1" :> 1) @@ ("2" :> 2) @@ ("3" :> 3) @@ ("4" :> 4) @@
    ("5" :> 5) @@ ("6" :> 6) @@ ("7" :> 7) @@ ("8" :> 8) @@ ("9" :> 9) @@
    ("a" :> 10) @@ ("b" :> 11) @@ ("c" :> 12) @@ ("d" :> 13) @@ ("e" :> 14) @@
    ("f" :> 15) @@ ("A" :> 10) @@ ("B" :> 11) @@ ("C" :> 12) @@ ("D" :> 13) @@
    ("E" :> 14) @@ ("F" :> 15)

\* value of a hex digit, -1 for any other character
HexVal(c) == IF c \in DOMAIN HexValue THEN HexValue[c] ELSE -1

\* hash.digest('hex'): two lower-case digits per byte
DigestHex(bytes) ==
    [i \in 1..(2 * Len(bytes)) |->
        IF i % 2 = 1 THEN HexLower[(bytes[(i + 1) \div 2] \div 16) + 1]
                     ELSE HexLower[(bytes[i \div 2] % 16) + 1]]

\* Buffer.from(text, 'hex'): decodes pairs of digits and stops at the first
\* pair that is not hex; an odd trailing character is dropped
BufferFromHex(text) ==
    LET n == Len(text) \div 2
        ValidPair(j) == HexVal(text[2 * j - 1]) >= 0 /\ HexVal(text[2 * j]) >= 0
        k == IF \A j \in 1..n : ValidPair(j) THEN n
             ELSE (CHOOSE j \in 1..n :
                      ~ValidPair(j) /\ \A i \in 1..(j - 1) : ValidPair(i)) - 1
    IN  [j \in 1..k |-> 16 * HexVal(text[2 * j - 1]) + HexVal(text[2 * j])]

\* String.prototype.replace(pattern, replacement) with a string pattern:
\* the first occurrence only
ReplaceFirst(text, pat, rep) ==
    LET At(i) == i + Len(pat) - 1 <= Len(text) /\ SubSeq(text, i, i + Len(pat) - 1) = pat
    IN  IF \E i \in 1..Len(text) : At(i)
        THEN LET i == CHOOSE i \in 1..Len(text) : At(i) /\ \A j \in 1..(i - 1) : ~At(j)
             IN  SubSeq(text, 1, i - 1) \o rep \o SubSeq(text, i + Len(pat), Len(text))
        ELSE text

-----------------------------------------------------------------------------
(* Raw request bodies and JSON.parse *)

JsonKinds    == <<"invalid", "null", "scalar", "object">>
EventValues  == <<Absent, "", "content.updated">>
DataKinds    == <<Absent, "null", "scalar", "object">>
TypeValues   == <<Absent, "", "post", "page", "settings", "media", "unknown-type">>
SlugValues   == <<Absent, "", "home", "foo">>
ActionValues == <<Absent, "create", "update", "delete">>
IdValues     == <<Absent, "m1">>

\* A raw body: its text is either no JSON at all ("invalid"), the JSON null,
\* a JSON scalar, or a JSON object with the members below; pad counts the
\* blanks after it, which the parser skips and the HMAC does not.
Body(pad, json, event, data, type, slug, action, id) ==
    [pad |-> pad, json |-> json, event |-> event, data |-> data,
     type |-> type, slug |-> slug, action |-> action, id |-> id]

Bodies ==
    {Body(p, j, Absent, Absent, Absent, Absent, Absent, Absent) :
        p \in 0..MaxPad, j \in {"invalid", "null", "scalar"}}
    \cup
    {Body(p, "object", e, d, Absent, Absent, Absent, Absent) :
        p \in 0..MaxPad, e \in Range(EventValues), d \in {Absent, "null", "scalar"}}
    \cup
    {Body(x[1], "object", x[2], "object", x[3], x[4], x[5], x[6]) :
        x \in (0..MaxPad) \X Range(EventValues) \X Range(TypeValues)
              \X Range(SlugValues) \X Range(ActionValues) \X Range(IdValues)}

SyntaxError == "SyntaxError"

\* JSON.parse(body): throws on text that is no JSON, else the value without
\* the insignificant whitespace
JsonParse(body) ==
    IF body.json = "invalid" THEN [json |-> SyntaxError]
    ELSE [json |-> body.json, event |-> body.event, data |-> body.data,
          type |-> body.type, slug |-> body.slug, action |-> body.action,
          id |-> body.id]

-----------------------------------------------------------------------------
(* HMAC-SHA256 *)

WEBHOOK_SECRET == "your-webhook-secret"
WrongSecret    == "not-the-secret"

\* bytes of a SHA-256 digest
DigestBytes == 32

\* a number for each raw body, different for different bodies
BodyCode(b) ==
    b.pad + (MaxPad + 1) * (
    (IndexOf(JsonKinds, b.json) - 1) + 4 * (
    (IndexOf(EventValues, b.event) - 1) + 3 * (
    (IndexOf(DataKinds, b.data) - 1) + 4 * (
    (IndexOf(TypeValues, b.type) - 1) + 7 * (
    (IndexOf(SlugValues, b.slug) - 1) + 4 * (
    (IndexOf(ActionValues, b.action) - 1) + 4 * (
    (IndexOf(IdValues, b.id) - 1))))))))

KeyCode(key) == IF key = WEBHOOK_SECRET THEN 1 ELSE 2

\* crypto.createHmac('sha256', key).update(payload): DigestBytes bytes, an
\* injective function of key and body (bytes 1..3 spell them out)
HmacSha256(key, payload) ==
    LET c == BodyCode(payload)
        k == KeyCode(key)
    IN  [i \in 1..DigestBytes |->
            CASE i = 1 -> c % 256
              [] i = 2 -> (c \div 256) % 256
              [] i = 3 -> k
              [] OTHER -> (c + 17 * i + 29 * k) % 256]

-----------------------------------------------------------------------------
(* Signature Verifier *)

RangeError == "RangeError"

Prefix == <<"s", "h", "a", "2", "5", "6", "=">>

\* crypto.timingSafeEqual(a, b): throws when the byte lengths differ
TimingSafeEqual(a, b) ==
    IF Len(a) # Len(b) THEN RangeError
    ELSE IF a = b THEN "true" ELSE "false"

VerifySignature_LengthOnly(payload, signature) ==
    IF signature = <<>> THEN "false"
    ELSE LET expectedSignature == DigestHex(HmacSha256(WEBHOOK_SECRET, payload))
             receivedSignature == ReplaceFirst(signature, Prefix, <<>>)
         IN  IF Len(BufferFromHex(expectedSignature)) = Len(BufferFromHex(receivedSignature))
             THEN "true" ELSE RangeError

\* verifySignature(payload, signature): "true", "false", or the exception
\* that leaves it
VerifySignature(payload, signature) ==
    IF signature = <<>> THEN "false"
    ELSE LET expectedSignature == DigestHex(HmacSha256(WEBHOOK_SECRET, payload))
             receivedSignature == ReplaceFirst(signature, Prefix, <<>>)
         IN  TimingSafeEqual(BufferFromHex(expectedSignature),
                             BufferFromHex(receivedSignature))

\* the header a sender holding key computes for body
SignatureFor(key, body) == Prefix \o DigestHex(HmacSha256(key, body))

-----------------------------------------------------------------------------
(* RevalidationManager (lib/revalidation.ts) *)

\* message of the Error a failing next/cache call throws
CacheErrorMessage == "cache invalidation failed"

\* new RevalidationManager(); failAt is the environment's part: which call
\* into next/cache throws (0: none does).  threw records an exception on
\* its way up: every later statement of the method is skipped.
NewManager(failAt) ==
    [revalidatedPaths |-> <<>>, revalidatedTags |-> <<>>,
     calls |-> 0, failAt |-> failAt, threw |-> FALSE]

RevalidatePath_Continue(m, path) ==
    IF m.calls + 1 = m.failAt
    THEN [m EXCEPT !.calls = @ + 1, !.threw = TRUE]
    ELSE [m EXCEPT !.calls = @ + 1, !.revalidatedPaths = Append(@, path)]

RevalidatePath(m, path) ==
    IF m.threw THEN m
    ELSE IF m.calls + 1 = m.failAt
         THEN [m EXCEPT !.calls = @ + 1, !.threw = TRUE]
         ELSE [m EXCEPT !.calls = @ + 1,
                        !.revalidatedPaths = Append(@, path)]

RevalidateTag(m, tag) ==
    IF m.threw THEN m
    ELSE IF m.calls + 1 = m.failAt
         THEN [m EXCEPT !.calls = @ + 1, !.threw = TRUE]
         ELSE [m EXCEPT !.calls = @ + 1,
                        !.revalidatedTags = Append(@, tag)]

RevalidateBlogPost_NoFeed(m, slug, action) ==
    LET m1 == RevalidatePath(m, "/blog")
        m2 == IF Truthy(slug) THEN RevalidatePath(m1, "/blog/" \o slug) ELSE m1
        m3 == RevalidatePath(m2, "/sitemap.xml")
    IN  RevalidateTag(m3, "blog-posts")

RevalidateBlogPost(m, slug, action) ==
    LET m1 == RevalidatePath(m, "/blog")
        m2 == IF Truthy(slug) THEN RevalidatePath(m1, "/blog/" \o slug) ELSE m1
        m3 == RevalidatePath(m2, "/sitemap.xml")
        m4 == RevalidatePath(m3, "/rss.xml")
    IN  RevalidateTag(m4, "blog-posts")

RevalidatePage_NoSentinel(m, slug, action) ==
    LET m1 == IF Truthy(slug) THEN RevalidatePath(m, "/" \o slug) ELSE m
        m2 == RevalidatePath(m1, "/sitemap.xml")
    IN  RevalidateTag(m2, "pages")

RevalidatePage(m, slug, action) ==
    LET m1 == IF Truthy(slug) /\ slug # "home" THEN RevalidatePath(m, "/" \o slug)
              ELSE IF slug = "home" THEN RevalidatePath(m, "/")
              ELSE m
        m2 == RevalidatePath(m1, "/sitemap.xml")
    IN  RevalidateTag(m2, "pages")

RevalidateGlobalSettings_WithSitemap(m) ==
    LET m1 == RevalidatePath(m, "/")
        m2 == RevalidatePath(m1, "/blog")
        m3 == RevalidatePath(m2, "/sitemap.xml")
        m4 == RevalidateTag(m3, "site-settings")
        m5 == RevalidateTag(m4, "layout")
    IN  RevalidateTag(m5, "navigation")

RevalidateGlobalSettings(m) ==
    LET m1 == RevalidatePath(m, "/")
        m2 == RevalidatePath(m1, "/blog")
        m3 == RevalidateTag(m2, "site-settings")
        m4 == RevalidateTag(m3, "layout")
    IN  RevalidateTag(m4, "navigation")

RevalidateMedia_WithPath(m, mediaId) ==
    LET m1 == RevalidateTag(m, "media")
        m2 == RevalidateTag(m1, "images")
    IN  IF Truthy(mediaId) THEN RevalidatePath(m2, "/media/" \o mediaId) ELSE m2

RevalidateMedia(m, mediaId) ==
    LET m1 == RevalidateTag(m, "media")
    IN  RevalidateTag(m1, "images")

GetResult(m) ==
    [success |-> TRUE, revalidatedPaths |-> m.revalidatedPaths,
     revalidatedTags |-> m.revalidatedTags, error |-> Absent]

GetErrorResult(m, error) ==
    [success |-> FALSE, revalidatedPaths |-> m.revalidatedPaths,
     revalidatedTags |-> m.revalidatedTags, error |-> error]

\* one operation of a batch: { type, value }
BatchOperation(type, value) == [type |-> type, value |-> value]

\* `Failed to revalidate ${op.type} ${op.value}: ${error}`, error being the
\* Error next/cache threw
BatchError(op) ==
    "Failed to revalidate " \o op.type \o " " \o op.value \o ": Error: "
       \o CacheErrorMessage

\* errors.join('; ')
RECURSIVE Join(_)
Join(texts) ==
    IF texts = <<>> THEN ""
    ELSE IF Len(texts) = 1 THEN texts[1]
    ELSE texts[1] \o "; " \o Join(Tail(texts))

\* operations.forEach(op => try { ... } catch { errors.push(...) }) from the
\* i-th operation on; failing is the environment's part: the operations
\* whose call into next/cache throws
RECURSIVE BatchForEach(_, _, _, _)
BatchForEach(run, operations, failing, i) ==
    IF i > Len(operations) THEN run
    ELSE LET op == operations[i]
             armed == [run.manager EXCEPT
                          !.failAt = IF i \in failing THEN run.manager.calls + 1
                                     ELSE 0]
             after == IF op.type = "path" THEN RevalidatePath(armed, op.value)
                      ELSE RevalidateTag(armed, op.value)
         IN  BatchForEach(
                [manager |-> [after EXCEPT !.threw = FALSE],
                 errors |-> IF after.threw
                            THEN Append(run.errors, BatchError(op))
                            ELSE run.errors],
                operations, failing, i + 1)

\* a batchRevalidate call that has run: its arguments, the manager's lists,
\* the calls into next/cache, and the message of the Error it threw, if any
Batch(operations, failing, manager, error) ==
    [ran |-> TRUE, operations |-> operations, failing |-> failing,
     revalidatedPaths |-> manager.revalidatedPaths,
     revalidatedTags |-> manager.revalidatedTags,
     calls |-> manager.calls, error |-> error]
NoBatch == [Batch(<<>>, {}, NewManager(0), Absent) EXCEPT !.ran = FALSE]

BatchRevalidate_FirstError(manager, operations, failing) ==
    LET reached == {i \in DOMAIN operations : \A j \in failing : i <= j}
        run == BatchForEach([manager |-> manager, errors |-> <<>>],
                            SubSeq(operations, 1, Cardinality(reached)),
                            failing, 1)
    IN  Batch(operations, failing, run.manager,
              IF Len(run.errors) > 0 THEN run.errors[1] ELSE Absent)

\* batchRevalidate(operations)
BatchRevalidate(manager, operations, failing) ==
    LET run == BatchForEach([manager |-> manager, errors |-> <<>>],
                            operations, failing, 1)
    IN  Batch(operations, failing, run.manager,
              IF Len(run.errors) > 0 THEN Join(run.errors) ELSE Absent)

\* the operations callers batch
BatchOperations ==
    {BatchOperation("path", "/blog"), BatchOperation("path", "/sitemap.xml"),
     BatchOperation("tag", "blog-posts")}
BatchLists == UNION {[1..n -> BatchOperations] : n \in 0..MaxBatch}

-----------------------------------------------------------------------------
(* Revalidation Dispatcher (route.ts, handleRevalidation) *)

ContentTypes == {"post", "page", "settings", "media"}

\* the switch on data.type: the manager as the chosen method leaves it
Dispatch(manager, data) ==
    CASE data.type = "post"     -> RevalidateBlogPost(manager, data.slug, data.action)
      [] data.type = "page"     -> RevalidatePage(manager, data.slug, data.action)
      [] data.type = "settings" -> RevalidateGlobalSettings(manager)
      [] data.type = "media"    -> RevalidateMedia(manager, data.id)
      [] OTHER                  -> manager

HandleRevalidation_UnknownIgnored(payload, failAt) ==
    LET m == Dispatch(NewManager(failAt), payload)
    IN  IF m.threw THEN GetErrorResult(m, CacheErrorMessage) ELSE GetResult(m)

HandleRevalidation(payload, failAt) ==
    LET manager == NewManager(failAt)
        m == Dispatch(manager, payload)
    IN  IF payload.type \notin ContentTypes
        THEN GetErrorResult(manager, "Unknown content type: " \o payload.type)
        ELSE IF m.threw THEN GetErrorResult(m, CacheErrorMessage)
        ELSE GetResult(m)

-----------------------------------------------------------------------------
(* POST /api/webhooks/build *)

NoRequest  == [kind |-> "none"]
NoResponse == [status |-> 0]
NoResult   == [success |-> FALSE, revalidatedPaths |-> <<>>,
               revalidatedTags |-> <<>>, error |-> "<no result>"]

HeaderNames == {"x-signature-256", "x-hub-signature-256"}

\* headers.get(name) of a header that was not sent is null; the handler's
\* `|| ''` makes that the empty text, which <<>> stands for here as well
NoHeader == <<>>

Request(body, name, signature) ==
    [kind |-> "POST", body |-> body,
     xSignature256    |-> IF name = "x-signature-256" THEN signature ELSE NoHeader,
     xHubSignature256 |-> IF name = "x-hub-signature-256" THEN signature ELSE NoHeader]

\* request.headers.get('x-signature-256') ||
\* request.headers.get('x-hub-signature-256') || ''
SignatureHeader(req) ==
    IF req.xSignature256 # <<>> THEN req.xSignature256
    ELSE IF req.xHubSignature256 # <<>> THEN req.xHubSignature256
    ELSE <<>>

TypeError == "TypeError"

\* !payload.event || !payload.data || !payload.data.type on the parsed
\* value: reading a property of null throws, of a scalar gives undefined
PayloadCheck(payload) ==
    IF payload.json = "null" THEN TypeError
    ELSE IF payload.json # "object" THEN "invalid"
    ELSE IF ~Truthy(payload.event) THEN "invalid"
    ELSE IF payload.data \in {Absent, "null"} THEN "invalid"
    ELSE IF payload.data # "object" THEN "invalid"
    ELSE IF ~Truthy(payload.type) THEN "invalid"
    ELSE "ok"

Json(status, error, details, event, paths, tags) ==
    [status |-> status, error |-> error, details |-> details,
     success |-> (status = 200), event |-> event, paths |-> paths, tags |-> tags]

\* what one run of the handler leaves behind
Outcome(resp, result, m) ==
    [response |-> resp, result |-> result,
     paths |-> m.revalidatedPaths, tags |-> m.revalidatedTags, threw |-> m.threw]

Untouched == NewManager(0)

Rejected(status, error) ==
    Outcome(Json(status, error, Absent, Absent, <<>>, <<>>), NoResult, Untouched)

\* the handler is past its checks and goes on to handleRevalidation
Proceed(payload) == [proceed |-> TRUE, payload |-> payload]

Admit_ParseFirst(req) ==
    LET body      == req.body
        signature == SignatureHeader(req)
        payload   == JsonParse(body)
    IN  IF payload.json = SyntaxError
        THEN [proceed |-> FALSE, outcome |-> Rejected(400, "Invalid JSON payload")]
        ELSE IF PayloadCheck(payload) = TypeError
        THEN [proceed |-> FALSE, outcome |-> Rejected(500, "Internal server error")]
        ELSE IF PayloadCheck(payload) # "ok"
        THEN [proceed |-> FALSE, outcome |-> Rejected(400, "Invalid payload structure")]
        ELSE Proceed(payload)

\* POST up to the call of handleRevalidation: signature, JSON.parse and the
\* structure check, each answering on its own when it fails; an exception
\* leaving any of them lands in the outer catch
Admit(req) ==
    LET body      == req.body
        signature == SignatureHeader(req)
        verified  == VerifySignature(body, signature)
        payload   == JsonParse(body)
    IN  IF verified = RangeError
        THEN [proceed |-> FALSE, outcome |-> Rejected(500, "Internal server error")]
        ELSE IF verified # "true"
        THEN [proceed |-> FALSE, outcome |-> Rejected(401, "Invalid signature")]
        ELSE IF payload.json = SyntaxError
        THEN [proceed |-> FALSE, outcome |-> Rejected(400, "Invalid JSON payload")]
        ELSE IF PayloadCheck(payload) = TypeError
        THEN [proceed |-> FALSE, outcome |-> Rejected(500, "Internal server error")]
        ELSE IF PayloadCheck(payload) # "ok"
        THEN [proceed |-> FALSE, outcome |-> Rejected(400, "Invalid payload structure")]
        ELSE Proceed(payload)

\* POST from the call of handleRevalidation to the response
Revalidate(payload, failAt) ==
    LET revalidationResult_ == HandleRevalidation(payload, failAt)
        m == Dispatch(NewManager(failAt), payload)
    IN  IF ~revalidationResult_.success
        THEN Outcome(Json(500, "Revalidation failed", revalidationResult_.error,
                          Absent, <<>>, <<>>),
                     revalidationResult_, m)
        ELSE Outcome(Json(200, Absent, Absent, payload.event,
                          revalidationResult_.revalidatedPaths,
                          revalidationResult_.revalidatedTags),
                     revalidationResult_, m)

-----------------------------------------------------------------------------
(* Senders *)

Text_invalid_signature ==
    <<"i","n","v","a","l","i","d","-","s","i","g","n","a","t","u","r","e">>
Text_sha256_test == Prefix \o <<"t","e","s","t">>

\* a well-formed digest of the wrong length, one of the right length that
\* is not hex, and one of the right length that is hex but not the HMAC
ShortDigest  == Prefix \o <<"a","b","c","d">>
NotHexDigest == Prefix \o [i \in 1..(2 * DigestBytes) |-> "z"]
ZeroDigest   == Prefix \o [i \in 1..(2 * DigestBytes) |-> "0"]

ReferenceBody ==
    Body(0, "object", "content.updated", "object", "post", "foo", "update", Absent)

\* bodies other than b whose signature a sender may attach to b
OtherBodies(b) ==
    {[b EXCEPT !.pad = (b.pad + 1) % (MaxPad + 1)], ReferenceBody} \ {b}

\* the signature headers tried with body b
Signatures(b) ==
    {NoHeader, SignatureFor(WEBHOOK_SECRET, b), SignatureFor(WrongSecret, b),
     Text_invalid_signature, Text_sha256_test, ShortDigest, NotHexDigest, ZeroDigest}
    \cup {SignatureFor(WEBHOOK_SECRET, b2) : b2 \in OtherBodies(b)}

-----------------------------------------------------------------------------
(* lib/webhook-config.ts: WebhookManager, deploy hooks *)

Environments == {"staging", "production"}

\* a deploy hook url set in the process environment; '' when it is not set
HookUrl == "https://api.vercel.com/v1/integrations/deploy/hook"
NoHooks == [e \in Environments |-> ""]
HookConfigs == [Environments -> {"", HookUrl}]

\* what fetch can do: settle with a response, or reject
NoOutcome == [kind |-> "none", status |-> 0, statusText |-> Absent,
              body |-> Absent, isError |-> FALSE, message |-> Absent]
HttpResponse(status, statusText, body) ==
    [NoOutcome EXCEPT !.kind = "response", !.status = status,
                      !.statusText = statusText, !.body = body]
Rejection(isError, message) ==
    [NoOutcome EXCEPT !.kind = "rejected", !.isError = isError,
                      !.message = message]

\* response bodies: {"deploymentId":"dpl_1"}, {"id":"dpl_2"}, {}, null, or
\* text that is not JSON
FetchOutcomes ==
    {HttpResponse(200, "OK", "deploymentId"), HttpResponse(201, "Created", "id"),
     HttpResponse(200, "OK", "null"), HttpResponse(200, "OK", "invalid"),
     HttpResponse(500, "Internal Server Error", "empty"),
     Rejection(TRUE, "fetch failed"), Rejection(FALSE, "aborted")}

\* Response.ok
ResponseOk(status) == status >= 200 /\ status <= 299

\* how a block of code ends: with a value, or by throwing
Returned(value) ==
    [threw |-> FALSE, isError |-> FALSE, message |-> Absent, value |-> value]
Threw(isError, message) ==
    [threw |-> TRUE, isError |-> isError, message |-> message, value |-> Absent]

\* result.deploymentId || result.id of the parsed response body
DeploymentIdOf(body) ==
    CASE body = "deploymentId" -> "dpl_1"
      [] body = "id"           -> "dpl_2"
      [] OTHER                 -> Absent

\* the try block of triggerDeploy, from the fetch on
TryBlock(outcome) ==
    IF outcome.kind = "rejected"
    THEN Threw(outcome.isError, outcome.message)
    ELSE IF ~ResponseOk(outcome.status)
    THEN Threw(TRUE, "Deploy hook returned " \o ToString(outcome.status)
                     \o ": " \o outcome.statusText)
    ELSE IF outcome.body = "invalid"
    THEN Threw(TRUE, "Unexpected token in JSON")
    ELSE IF outcome.body = "null"
    THEN Threw(TRUE, "Cannot read properties of null")
    ELSE Returned(DeploymentIdOf(outcome.body))

\* what the promise triggerDeploy returned settles to
Pending ==
    [pending |-> TRUE, rejected |-> FALSE, success |-> FALSE,
     deploymentId |-> Absent, error |-> Absent]
Resolved(success, deploymentId, error) ==
    [pending |-> FALSE, rejected |-> FALSE, success |-> success,
     deploymentId |-> deploymentId, error |-> error]
RejectedWith(error) ==
    [pending |-> FALSE, rejected |-> TRUE, success |-> FALSE,
     deploymentId |-> Absent, error |-> error]

TriggerDeployReturn_NoCatch(outcome) ==
    LET t == TryBlock(outcome)
    IN  IF t.threw THEN RejectedWith(t.message)
        ELSE Resolved(TRUE, t.value, Absent)

\* triggerDeploy from the fetch on: the try block and its catch
TriggerDeployReturn(outcome) ==
    LET t == TryBlock(outcome)
    IN  IF t.threw
        THEN Resolved(FALSE, Absent,
                      IF t.isError THEN t.message ELSE "Unknown error")
        ELSE Resolved(TRUE, t.value, Absent)

NoTimer == 0

\* a call of triggerDeploy: who made it (a timer's callback, or NoTimer), the
\* HTTP requests it has issued, what fetch did, and what it returned
Call(environment, reason, timer, requests, result) ==
    [environment |-> environment, reason |-> reason, timer |-> timer,
     requests |-> requests, outcome |-> NoOutcome, result |-> result]
NoCall == Call(Absent, Absent, NoTimer, 0, Pending)

TriggerDeployCall_AlwaysFetch(hooks, environment, reason, timer) ==
    Call(environment,
         IF Truthy(reason) THEN reason ELSE "Manual deployment trigger",
         timer, 1, Pending)

\* triggerDeploy up to its first await: the early return when no hook is
\* configured, else the one fetch
TriggerDeployCall(hooks, environment, reason, timer) ==
    IF ~Truthy(hooks[environment])
    THEN Call(environment, reason, timer, 0,
              Resolved(FALSE, Absent,
                       "No deploy hook configured for " \o environment))
    ELSE Call(environment,
              IF Truthy(reason) THEN reason ELSE "Manual deployment trigger",
              timer, 1, Pending)

\* a timer of setTimeout. found and armedThen record the moment of the
\* queueDeployment call that created it: the handle the call found in
\* deploymentQueue, and the timers of its environment that were armed
Timer(environment, reason, delayMs, armedAt, found, armedThen) ==
    [environment |-> environment, reason |-> reason, delayMs |-> delayMs,
     armedAt |-> armedAt, state |-> "armed",
     found |-> found, armedThen |-> armedThen]

\* clearTimeout(handle): a timer that has fired is not touched
ClearTimeout(ts, handle) ==
    IF handle \in DOMAIN ts /\ ts[handle].state = "armed"
    THEN [ts EXCEPT ![handle].state = "cleared"]
    ELSE ts

ArmedTimers(ts, environment) ==
    {h \in DOMAIN ts : ts[h].environment = environment /\ ts[h].state = "armed"}

QueueAfterCallback_Clear(queue, environment, result) ==
    [e \in DOMAIN queue |-> NoTimer]

QueueAfterCallback_KeepOnFailure(queue, environment, result) ==
    IF result.success THEN [queue EXCEPT ![environment] = NoTimer] ELSE queue

\* the timer's callback after its await: deploymentQueue.delete(environment)
QueueAfterCallback(queue, environment, result) ==
    [queue EXCEPT ![environment] = NoTimer]

\* the reason of the n-th queueDeployment call: every call gives its own
Reason(n) == "Content update " \o ToString(n)
\* the delays callers queue with, in ticks of the clock; a delay shorter
\* than a tick is 0
Delays == {0, 1}

-----------------------------------------------------------------------------
(* lib/deployment-monitor.ts: DeploymentMonitor *)

\* an optional number or array: undefined, or the value
None == <<>>
Some(v) == <<v>>
\* !!n for an optional number
TruthyNumber(o) == o # None /\ o[1] # 0

\* new Date(ms).toISOString(), and new Date(iso).getTime()
IsoStrings == [ms \in 0..MaxTime |-> "T+" \o ToString(ms)]
ToISOString(ms) == IsoStrings[ms]
GetTime(iso) == CHOOSE ms \in 0..MaxTime : IsoStrings[ms] = iso

\* deployment ids: one more than the history holds
DeploymentIds == {"dpl_" \o ToString(n) : n \in 1..(maxHistory + 1)}

Statuses == {"pending", "building", "ready", "error", "canceled"}

\* Partial<DeploymentStatus> & { id }: the fields a caller leaves out are
\* undefined
Partial(id) ==
    [id |-> id, environment |-> Absent, status |-> Absent, url |-> Absent,
     createdAt |-> Absent, duration |-> None, error |-> Absent,
     buildLogs |-> None]

Has(ds, id) == \E i \in DOMAIN ds : ds[i].id = id
IndexOfId(ds, id) == CHOOSE i \in DOMAIN ds : ds[i].id = id

\* what existing?.field reads when the Map has no record of the id
NoDeployment ==
    [id |-> Absent, environment |-> Absent, status |-> Absent, url |-> Absent,
     createdAt |-> Absent, updatedAt |-> Absent, duration |-> None,
     error |-> Absent, buildLogs |-> <<>>]

\* getDeployment(id)
GetDeployment(ds, id) ==
    IF Has(ds, id) THEN ds[IndexOfId(ds, id)] ELSE NoDeployment

\* a || b and a || b || c on strings
Or(a, b) == IF Truthy(a) THEN a ELSE b

MapSet_Refresh(ds, id, updated) ==
    Append(SelectSeq(ds, LAMBDA d : d.id # id), updated)

\* this.deployments.set(id, updated): a known key keeps its place
MapSet(ds, id, updated) ==
    IF Has(ds, id) THEN [ds EXCEPT ![IndexOfId(ds, id)] = updated]
    ELSE Append(ds, updated)

Evict_Newest(stored) ==
    IF Len(stored) > maxHistory
    THEN SubSeq(stored, 1, Len(stored) - 1) ELSE stored

\* if (this.deployments.size > this.maxHistory): delete the first key
Evict(stored) ==
    IF Len(stored) > maxHistory THEN Tail(stored) ELSE stored

UpdateDeployment_NoMerge(ds, deployment, t) ==
    LET updated ==
           [id |-> deployment.id,
            environment |-> Or(deployment.environment, "staging"),
            status |-> Or(deployment.status, "pending"),
            url |-> deployment.url,
            createdAt |-> Or(deployment.createdAt, ToISOString(t)),
            updatedAt |-> ToISOString(t),
            duration |-> IF TruthyNumber(deployment.duration)
                         THEN deployment.duration ELSE None,
            error |-> deployment.error,
            buildLogs |-> IF deployment.buildLogs # None
                          THEN deployment.buildLogs[1] ELSE <<>>]
    IN  Evict(MapSet(ds, deployment.id, updated))

\* updateDeployment(deployment) at time t
UpdateDeployment(ds, deployment, t) ==
    LET existing == GetDeployment(ds, deployment.id)
        updated ==
           [id |-> deployment.id,
            environment |-> Or(deployment.environment,
                               Or(existing.environment, "staging")),
            status |-> Or(deployment.status, Or(existing.status, "pending")),
            url |-> Or(deployment.url, existing.url),
            createdAt |-> Or(deployment.createdAt,
                             Or(existing.createdAt, ToISOString(t))),
            updatedAt |-> ToISOString(t),
            duration |-> IF TruthyNumber(deployment.duration)
                         THEN deployment.duration ELSE existing.duration,
            error |-> Or(deployment.error, existing.error),
            buildLogs |-> IF deployment.buildLogs # None
                          THEN deployment.buildLogs[1]
                          ELSE existing.buildLogs]
    IN  Evict(MapSet(ds, deployment.id, updated))

\* Array.prototype.sort by createdAt, newest first; the sort is stable
RECURSIVE SortNewestFirst(_)
SortNewestFirst(list) ==
    IF list = <<>> THEN <<>>
    ELSE LET n == Len(list)
             front == SortNewestFirst(SubSeq(list, 1, n - 1))
             k == Cardinality({i \in DOMAIN front :
                      GetTime(front[i].createdAt) >= GetTime(list[n].createdAt)})
         IN  SubSeq(front, 1, k) \o <<list[n]>> \o SubSeq(front, k + 1, n - 1)

\* getDeploymentsByEnvironment(environment)
GetDeploymentsByEnvironment(ds, environment) ==
    SortNewestFirst(SelectSeq(ds, LAMBDA d : d.environment = environment))

\* a quotient of two numbers, kept exact
Ratio(num, den) == [num |-> num, den |-> den]
SameRatio(q, r) == q.num * r.den = r.num * q.den

RECURSIVE SumOfDurations(_)
SumOfDurations(list) ==
    IF list = <<>> THEN 0
    ELSE list[1].duration[1] + SumOfDurations(Tail(list))

CountStatus(list, status) ==
    Cardinality({i \in DOMAIN list : list[i].status = status})

GetBuildMetrics_ZeroWhenEmpty(ds, environment) ==
    LET list == IF Truthy(environment)
                THEN GetDeploymentsByEnvironment(ds, environment) ELSE ds
    IN  [totalBuilds |-> Len(list),
         successfulBuilds |-> CountStatus(list, "ready"),
         failedBuilds |-> CountStatus(list, "error"),
         averageBuildTime |-> Ratio(0, 1),
         lastBuildTime |-> IF list # <<>> THEN list[1].createdAt ELSE Absent,
         uptime |-> IF Len(list) > 0
                    THEN Ratio(CountStatus(list, "ready") * 100, Len(list))
                    ELSE Ratio(0, 1)]

\* getBuildMetrics(environment?)
GetBuildMetrics(ds, environment) ==
    LET list == IF Truthy(environment)
                THEN GetDeploymentsByEnvironment(ds, environment) ELSE ds
        totalBuilds == Len(list)
        successfulBuilds == CountStatus(list, "ready")
        failedBuilds == CountStatus(list, "error")
        completedBuilds == SelectSeq(list, LAMBDA d : TruthyNumber(d.duration))
    IN  [totalBuilds |-> totalBuilds,
         successfulBuilds |-> successfulBuilds,
         failedBuilds |-> failedBuilds,
         averageBuildTime |->
            IF Len(completedBuilds) > 0
            THEN Ratio(SumOfDurations(completedBuilds), Len(completedBuilds))
            ELSE Ratio(0, 1),
         lastBuildTime |-> IF list # <<>> THEN list[1].createdAt ELSE Absent,
         uptime |-> IF totalBuilds > 0
                    THEN Ratio(successfulBuilds * 100, totalBuilds)
                    ELSE Ratio(100, 1)]

\* startDeployment(id, environment)
StartDeployment(ds, id, environment, t) ==
    UpdateDeployment(ds, [Partial(id) EXCEPT !.environment = environment,
                                             !.status = "pending"], t)

MarkBuilding_KnownOnly(ds, id, buildLogs, t) ==
    IF Has(ds, id)
    THEN UpdateDeployment(ds, [Partial(id) EXCEPT !.status = "building",
                                                  !.buildLogs = buildLogs], t)
    ELSE ds

\* markBuilding(id, buildLogs?)
MarkBuilding(ds, id, buildLogs, t) ==
    UpdateDeployment(ds, [Partial(id) EXCEPT !.status = "building",
                                             !.buildLogs = buildLogs], t)

\* Date.now() - new Date(deployment.createdAt).getTime(), if there is a
\* deployment
Elapsed(ds, id, t) ==
    IF Has(ds, id) /\ Truthy(GetDeployment(ds, id).createdAt)
    THEN Some(t - GetTime(GetDeployment(ds, id).createdAt))
    ELSE None

MarkReady_ElapsedOnly(ds, id, url, buildTime, t) ==
    UpdateDeployment(ds, [Partial(id) EXCEPT !.status = "ready", !.url = url,
                                             !.duration = Elapsed(ds, id, t)], t)

\* markReady(id, url?, buildTime?)
MarkReady(ds, id, url, buildTime, t) ==
    LET duration == IF TruthyNumber(buildTime) THEN buildTime
                    ELSE Elapsed(ds, id, t)
    IN  UpdateDeployment(ds, [Partial(id) EXCEPT !.status = "ready",
                                                 !.url = url,
                                                 !.duration = duration], t)

MarkFailed_Canceled(ds, id, error, buildLogs, t) ==
    UpdateDeployment(ds, [Partial(id) EXCEPT !.status = "canceled",
                                             !.error = error,
                                             !.duration = Elapsed(ds, id, t),
                                             !.buildLogs = buildLogs], t)

\* markFailed(id, error, buildLogs?)
MarkFailed(ds, id, error, buildLogs, t) ==
    UpdateDeployment(ds, [Partial(id) EXCEPT !.status = "error",
                                             !.error = error,
                                             !.duration = Elapsed(ds, id, t),
                                             !.buildLogs = buildLogs], t)

\* Array.prototype.slice(0, end)
Slice(list, end) ==
    LET n == Len(list)
        last == IF end < 0 THEN (IF n + end < 0 THEN 0 ELSE n + end)
                ELSE IF end > n THEN n ELSE end
    IN  SubSeq(list, 1, last)

\* getLatestDeployment(environment); NoDeployment stands for undefined
GetLatestDeployment(ds, environment) ==
    LET list == GetDeploymentsByEnvironment(ds, environment)
    IN  IF list = <<>> THEN NoDeployment ELSE list[1]

\* getStatusSummary()
GetStatusSummary(ds) ==
    [environment \in Environments |->
        [status |-> Or(GetLatestDeployment(ds, environment).status, "unknown"),
         lastUpdate |-> Or(GetLatestDeployment(ds, environment).updatedAt,
                           "never")]]

GetHistory_Unsorted(ds, limit) == Slice(ds, limit)

\* getHistory(limit)
GetHistory(ds, limit) == Slice(SortNewestFirst(ds), limit)

\* the metrics of each environment and of all deployments together
AllMetrics(ds) ==
    [staging |-> GetBuildMetrics(ds, "staging"),
     production |-> GetBuildMetrics(ds, "production"),
     overall |-> GetBuildMetrics(ds, Absent)]

\* exportData()
ExportData(ds) ==
    [deployments |-> ds, metrics |-> AllMetrics(ds),
     summary |-> GetStatusSummary(ds)]

\* the search parameters of GET /api/deployment/status
Query(format, environment, limit) ==
    [format |-> format, environment |-> environment, limit |-> limit]

\* parseInt(searchParams.get('limit') || '10')
DefaultLimit == 10

\* what GET answers: the status and the data of its JSON, under the name of
\* what it is
Answer(query, code, kind, data) ==
    [query |-> query, code |-> code, data |-> [k \in {kind} |-> data]]
NoQuery == Answer(Query(Absent, Absent, None), 0, "none", <<>>)

\* export async function GET(request) of api/deployment/status
StatusGET(ds, query) ==
    LET environment == query.environment
        format == Or(query.format, "summary")
        limit == IF query.limit = None THEN DefaultLimit ELSE query.limit[1]
    IN  CASE format = "summary" ->
                Answer(query, 200, "summary", GetStatusSummary(ds))
          [] format = "metrics" ->
                Answer(query, 200, "metrics",
                       IF Truthy(environment)
                       THEN GetBuildMetrics(ds, environment)
                       ELSE AllMetrics(ds))
          [] format = "history" ->
                Answer(query, 200, "history",
                       IF Truthy(environment)
                       THEN Slice(GetDeploymentsByEnvironment(ds, environment),
                                  limit)
                       ELSE GetHistory(ds, limit))
          [] format = "latest" ->
                IF ~Truthy(environment) THEN Answer(query, 400, "error", <<>>)
                ELSE Answer(query, 200, "latest",
                            GetLatestDeployment(ds, environment))
          [] format = "export" -> Answer(query, 200, "export", ExportData(ds))
          [] OTHER -> Answer(query, 400, "error", <<>>)

\* the queries clients send
Queries ==
    {Query(format, environment, None) :
        format \in {Absent, "metrics", "history", "latest", "export", "csv"},
        environment \in {Absent, "staging"}}
    \cup {Query("history", environment, Some(1)) :
             environment \in {Absent, "staging"}}

\* the JSON body of POST /api/deployment/status, an object
StatusBody(action, deploymentId, environment, status) ==
    [json |-> "object", action |-> action, deploymentId |-> deploymentId,
     environment |-> environment, status |-> status, url |-> Absent,
     error |-> Absent, buildTime |-> None, buildLogs |-> None]

\* the body null
NullBody == [StatusBody(Absent, Absent, Absent, Absent) EXCEPT !.json = "null"]

\* what the handler leaves behind: the monitor's deployments, the status of
\* its response and the deployment in it
StatusResponse(ds, code, deployment) ==
    [deployments |-> ds, code |-> code, deployment |-> deployment]

\* the response to a supported action: the record of the id after it
Updated(ds, id) == StatusResponse(ds, 200, GetDeployment(ds, id))

\* export async function POST(request) of api/deployment/status;
\* destructuring the body null throws, which the outer catch answers
StatusPOST(ds, body, t) ==
    IF body.json = "null" THEN StatusResponse(ds, 500, NoDeployment)
    ELSE IF ~Truthy(body.deploymentId) \/ ~Truthy(body.environment)
    THEN StatusResponse(ds, 400, NoDeployment)
    ELSE CASE body.action = "start" ->
                 Updated(StartDeployment(ds, body.deploymentId,
                                         body.environment, t),
                         body.deploymentId)
           [] body.action = "building" ->
                 Updated(MarkBuilding(ds, body.deploymentId, body.buildLogs, t),
                         body.deploymentId)
           [] body.action = "ready" ->
                 Updated(MarkReady(ds, body.deploymentId, body.url,
                                   body.buildTime, t),
                         body.deploymentId)
           [] body.action = "failed" ->
                 Updated(MarkFailed(ds, body.deploymentId,
                                    Or(body.error, "Unknown error"),
                                    body.buildLogs, t),
                         body.deploymentId)
           [] body.action = "update" ->
                 Updated(UpdateDeployment(ds,
                            [Partial(body.deploymentId) EXCEPT
                                !.environment = body.environment,
                                !.status = body.status,
                                !.url = body.url,
                                !.error = body.error,
                                !.buildLogs = body.buildLogs], t),
                         body.deploymentId)
           [] OTHER -> StatusResponse(ds, 400, NoDeployment)

\* the values callers pass
BuildLogs == {Some(<<"Test build started">>), Some(<<>>)}
ReadyArguments ==
    {<<"https://test.example.com", Some(30000)>>, <<Absent, None>>}
RouteActions == {"start", "building", "ready", "failed", "update", "deploy"}
StatusBodies ==
    {StatusBody(action, "dpl_1", "production", "canceled") :
        action \in RouteActions}
    \cup {StatusBody("start", Absent, "production", Absent),
          StatusBody("start", "dpl_1", Absent, Absent),
          NullBody}

\* Array.from(this.deployments.keys())
Keys(ds) == [i \in DOMAIN ds |-> ds[i].id]

\* an operation of the monitor: the method, who called it ("call": code of
\* the application, "POST": the status route), its arguments, with buildTime
\* in the place of duration, the status of the route's response, and what
\* the operation found: the keys of the Map and the status of its
\* deployment; then the id the operation before it wrote, and what went
\* through the route
Operation(op, via, args, code, keys, was, previous, route) ==
    [op |-> op, via |-> via, args |-> args, code |-> code, keys |-> keys,
     was |-> was, previous |-> previous, route |-> route]

\* the action of the route's request and the deployment in its response
Routed(action, deployment) == [action |-> action, deployment |-> deployment]
NoRoute == Routed(Absent, NoDeployment)

NoOperation ==
    Operation("none", "call", Partial(Absent), 0, <<>>, Absent, Absent,
              NoRoute)

\* the method each action of the status route calls
RouteMethod(action) ==
    CASE action = "start"    -> "startDeployment"
      [] action = "building" -> "markBuilding"
      [] action = "ready"    -> "markReady"
      [] action = "failed"   -> "markFailed"
      [] action = "update"   -> "updateDeployment"
      [] OTHER               -> "none"

\* the last operations, as far as they are startDeployment(id, environment),
\* then markBuilding(id) or not, then markReady(id, ...)
NoLifecycle == [id |-> Absent, environment |-> Absent, phase |-> "none"]
NextLifecycle(lc, op, args) ==
    CASE op = "startDeployment" ->
            [id |-> args.id, environment |-> args.environment,
             phase |-> "started"]
      [] op = "markBuilding" /\ lc.id = args.id /\ lc.phase = "started" ->
            [lc EXCEPT !.phase = "building"]
      [] op = "markReady" /\ lc.id = args.id
                          /\ lc.phase \in {"started", "building"} ->
            [lc EXCEPT !.phase = "ready"]
      [] OTHER -> NoLifecycle

-----------------------------------------------------------------------------
(* The state machine *)

\* the route module before its first request
InitWebhook ==
    /\ request = NoRequest
    /\ response = NoResponse
    /\ revalidationResult = NoResult
    /\ cachePaths = <<>>
    /\ cacheTags = <<>>
    /\ thrown = FALSE

\* new WebhookManager(): nothing queued, no call made
InitManager ==
    /\ deploymentQueue = [e \in Environments |-> NoTimer]
    /\ timers = <<>>
    /\ inflight = {}
    /\ settled = NoCall

\* new DeploymentMonitor(): no deployment recorded
InitMonitor ==
    /\ deployments = <<>>
    /\ lastCall = NoOperation
    /\ monitorCalls = 0
    /\ lifecycle = NoLifecycle
    /\ queried = NoQuery
    /\ batch = NoBatch

Init ==
    /\ InitWebhook
    /\ InitManager
    /\ deployHooks = NoHooks
    /\ InitMonitor
    /\ now = 0

\* a sender's POST arrives
Deliver ==
    /\ request = NoRequest
    /\ \E b \in Bodies, name \in HeaderNames :
          \E signature \in Signatures(b) :
             request' = Request(b, name, signature)
    /\ response' = NoResponse
    /\ revalidationResult' = NoResult
    /\ cachePaths' = <<>>
    /\ cacheTags' = <<>>
    /\ thrown' = FALSE
    /\ UNCHANGED <<deployVars, monitorVars, otherVars, now>>

\* export async function POST(request): the handler runs to its response;
\* failAt is the call into next/cache that throws during this run, if any
POST ==
    /\ request # NoRequest
    /\ response = NoResponse
    /\ \E admitted \in {Admit(request)} :
          \E failAt \in 0..MaxFailAt :
             \E out \in {IF admitted.proceed
                         THEN Revalidate(admitted.payload, failAt)
                         ELSE admitted.outcome} :
                /\ response' = out.response
                /\ revalidationResult' = out.result
                /\ cachePaths' = out.paths
                /\ cacheTags' = out.tags
                /\ thrown' = out.threw
    /\ UNCHANGED <<request, deployVars, monitorVars, otherVars, now>>

\* the response is sent and the invocation ends; the next request can come
Reply ==
    /\ response # NoResponse
    /\ request' = NoRequest
    /\ response' = NoResponse
    /\ revalidationResult' = NoResult
    /\ cachePaths' = <<>>
    /\ cacheTags' = <<>>
    /\ thrown' = FALSE
    /\ UNCHANGED <<deployVars, monitorVars, otherVars, now>>

NextWebhook == Deliver \/ POST \/ Reply

SpecWebhook == Init /\ [][NextWebhook]_vars

-----------------------------------------------------------------------------
(* The deploy hooks: queueDeployment, its timers, triggerDeploy *)

InitDeploy ==
    /\ InitWebhook
    /\ InitManager
    /\ deployHooks \in HookConfigs
    /\ InitMonitor
    /\ now = 0

\* queueDeployment(environment, reason, delayMs)
QueueDeployment ==
    /\ Len(timers) < MaxTimers
    /\ \E environment \in Environments, delayMs \in Delays,
          reason \in {Reason(Len(timers) + 1)} :
          /\ now + delayMs <= MaxTime
          /\ \E existingTimeout \in {deploymentQueue[environment]} :
                /\ timers' =
                      Append(IF existingTimeout # NoTimer
                             THEN ClearTimeout(timers, existingTimeout)
                             ELSE timers,
                             Timer(environment, reason, delayMs, now,
                                   existingTimeout,
                                   ArmedTimers(timers, environment)))
                /\ deploymentQueue' =
                      [deploymentQueue EXCEPT ![environment] = Len(timers) + 1]
    /\ settled' = NoCall
    /\ UNCHANGED <<deployHooks, inflight, webhookVars, monitorVars, otherVars,
                   now>>

\* the delay of timer h has passed and the event loop runs its callback, up
\* to the await of the fetch; with no hook configured triggerDeploy has
\* returned by then, and the callback runs to its end
Fires(h) ==
    /\ h \in DOMAIN timers
    /\ timers[h].state = "armed"
    /\ now >= timers[h].armedAt + timers[h].delayMs
    /\ \E call \in {TriggerDeployCall(deployHooks, timers[h].environment,
                                      timers[h].reason, h)} :
          IF call.result.pending
          THEN /\ timers' = [timers EXCEPT ![h].state = "running"]
               /\ inflight' = inflight \cup {call}
               /\ settled' = NoCall
               /\ UNCHANGED deploymentQueue
          ELSE /\ timers' = [timers EXCEPT ![h].state = "done"]
               /\ settled' = call
               /\ deploymentQueue' =
                     QueueAfterCallback(deploymentQueue, call.environment,
                                        call.result)
               /\ UNCHANGED inflight
    /\ UNCHANGED <<deployHooks, webhookVars, monitorVars, otherVars, now>>

TimerFires == \E h \in 1..MaxTimers : Fires(h)

\* a caller other than a timer awaits triggerDeploy(environment, reason)
TriggerDeploy ==
    /\ Cardinality({c \in inflight : c.timer = NoTimer}) < MaxManual
    /\ \E environment \in Environments,
          reason \in {"Manual trigger from test endpoint"} :
          \E call \in {TriggerDeployCall(deployHooks, environment, reason,
                                         NoTimer)} :
             IF call.result.pending
             THEN /\ call \notin inflight
                  /\ inflight' = inflight \cup {call}
                  /\ settled' = NoCall
             ELSE /\ settled' = call
                  /\ UNCHANGED inflight
    /\ UNCHANGED <<deployHooks, deploymentQueue, timers, webhookVars,
                   monitorVars, otherVars, now>>

\* the fetch of the triggerDeploy call made by caller settles: triggerDeploy
\* returns, and a timer's callback goes on to its end
ReturnsTo(caller) ==
    \E awaited \in inflight, outcome \in FetchOutcomes :
       /\ awaited.timer = caller
       /\ \E call \in {[awaited EXCEPT !.outcome = outcome,
                                       !.result = TriggerDeployReturn(outcome)]} :
             /\ inflight' = inflight \ {awaited}
             /\ settled' = call
             /\ IF call.timer # NoTimer
                THEN /\ timers' = [timers EXCEPT ![call.timer].state = "done"]
                     /\ deploymentQueue' =
                           QueueAfterCallback(deploymentQueue,
                                              call.environment, call.result)
                ELSE UNCHANGED <<timers, deploymentQueue>>
       /\ UNCHANGED <<deployHooks, webhookVars, monitorVars, otherVars, now>>

FetchReturns == \E caller \in 0..MaxTimers : ReturnsTo(caller)

\* time passes
Tick ==
    /\ now < MaxTime
    /\ now' = now + 1
    /\ UNCHANGED <<webhookVars, deployVars, monitorVars, otherVars>>

NextDeploy == QueueDeployment \/ TimerFires \/ TriggerDeploy \/ FetchReturns \/ Tick

SpecDeploy == InitDeploy /\ [][NextDeploy]_vars

\* the event loop runs every due timer, every fetch settles, and time passes
FairSpecDeploy ==
    /\ SpecDeploy
    /\ \A h \in 1..MaxTimers : WF_vars(Fires(h))
    /\ \A caller \in 0..MaxTimers : WF_vars(ReturnsTo(caller))
    /\ WF_vars(Tick)

-----------------------------------------------------------------------------
(* The deployment monitor: its methods and the status route *)

\* an operation of the monitor has run
Ran(op, via, args, code, route) ==
    /\ lastCall' = Operation(op, via, args, code, Keys(deployments),
                              GetDeployment(deployments, args.id).status,
                              IF lastCall.op = "none" THEN Absent
                              ELSE lastCall.args.id,
                              route)
    /\ monitorCalls' = monitorCalls + 1
    /\ lifecycle' = NextLifecycle(lifecycle, op, args)

\* trackDeployment(id, environment): startDeployment
CallStartDeployment ==
    /\ monitorCalls < MaxOps
    /\ \E id \in DeploymentIds, environment \in Environments :
          /\ deployments' = StartDeployment(deployments, id, environment, now)
          /\ Ran("startDeployment", "call",
                 [Partial(id) EXCEPT !.environment = environment], 0,
                 NoRoute)
    /\ UNCHANGED <<webhookVars, deployVars, otherVars, now>>

CallMarkBuilding ==
    /\ monitorCalls < MaxOps
    /\ \E id \in DeploymentIds, buildLogs \in BuildLogs :
          /\ deployments' = MarkBuilding(deployments, id, buildLogs, now)
          /\ Ran("markBuilding", "call",
                 [Partial(id) EXCEPT !.buildLogs = buildLogs], 0,
                 NoRoute)
    /\ UNCHANGED <<webhookVars, deployVars, otherVars, now>>

CallMarkReady ==
    /\ monitorCalls < MaxOps
    /\ \E id \in DeploymentIds, arguments \in ReadyArguments :
       \E url \in {arguments[1]}, buildTime \in {arguments[2]} :
          /\ deployments' = MarkReady(deployments, id, url, buildTime, now)
          /\ Ran("markReady", "call",
                 [Partial(id) EXCEPT !.url = url, !.duration = buildTime], 0,
                 NoRoute)
    /\ UNCHANGED <<webhookVars, deployVars, otherVars, now>>

CallMarkFailed ==
    /\ monitorCalls < MaxOps
    /\ \E id \in DeploymentIds, error \in {"Build failed"} :
          /\ deployments' = MarkFailed(deployments, id, error, None, now)
          /\ Ran("markFailed", "call", [Partial(id) EXCEPT !.error = error],
                 0, NoRoute)
    /\ UNCHANGED <<webhookVars, deployVars, otherVars, now>>

CallUpdateDeployment ==
    /\ monitorCalls < MaxOps
    /\ \E id \in DeploymentIds, status \in {"canceled"} :
          \E deployment \in {[Partial(id) EXCEPT !.status = status]} :
             /\ deployments' = UpdateDeployment(deployments, deployment, now)
             /\ Ran("updateDeployment", "call", deployment, 0, NoRoute)
    /\ UNCHANGED <<webhookVars, deployVars, otherVars, now>>

\* POST /api/deployment/status
PostStatus ==
    /\ monitorCalls < MaxOps
    /\ \E body \in StatusBodies :
          \E handled \in {StatusPOST(deployments, body, now)} :
             /\ deployments' = handled.deployments
             /\ Ran(IF handled.code = 200 THEN RouteMethod(body.action)
                    ELSE "none",
                    "POST",
                    [Partial(body.deploymentId) EXCEPT
                        !.environment = body.environment,
                        !.status = body.status],
                    handled.code, Routed(body.action, handled.deployment))
    /\ UNCHANGED <<webhookVars, deployVars, otherVars, now>>

NextMonitor ==
    \/ CallStartDeployment
    \/ CallMarkBuilding
    \/ CallMarkReady
    \/ CallMarkFailed
    \/ CallUpdateDeployment
    \/ PostStatus
    \/ Tick

SpecMonitor == Init /\ [][NextMonitor]_vars

-----------------------------------------------------------------------------
(* RevalidationManager.batchRevalidate *)

\* a caller makes a manager and runs a batch on it
CallBatchRevalidate ==
    /\ ~batch.ran
    /\ \E operations \in BatchLists :
          \E failing \in SUBSET DOMAIN operations :
             batch' = BatchRevalidate(NewManager(0), operations, failing)
    /\ UNCHANGED <<webhookVars, deployVars, monitorVars, queried, now>>

\* the caller has the return or the exception, and drops the manager
BatchReturns ==
    /\ batch.ran
    /\ batch' = NoBatch
    /\ UNCHANGED <<webhookVars, deployVars, monitorVars, queried, now>>

NextBatch == CallBatchRevalidate \/ BatchReturns

SpecBatch == Init /\ [][NextBatch]_vars

-----------------------------------------------------------------------------
(* The components side by side: the monitor holds a record while webhooks
   are handled, deploys are queued and triggered, and the status is read *)

GetStatus_ClearHistory ==
    /\ queried = NoQuery
    /\ \E query \in Queries : queried' = StatusGET(deployments, query)
    /\ deployments' = <<>>
    /\ UNCHANGED <<webhookVars, deployVars, lastCall, monitorCalls, lifecycle,
                   batch, now>>

\* GET /api/deployment/status
GetStatus ==
    /\ queried = NoQuery
    /\ \E query \in Queries : queried' = StatusGET(deployments, query)
    /\ UNCHANGED <<webhookVars, deployVars, monitorVars, batch, now>>

\* the response is sent
GetAnswered ==
    /\ queried # NoQuery
    /\ queried' = NoQuery
    /\ UNCHANGED <<webhookVars, deployVars, monitorVars, batch, now>>

\* one hook is configured, the other is not
InitFrame ==
    /\ InitWebhook
    /\ InitManager
    /\ deployHooks = [NoHooks EXCEPT !["production"] = HookUrl]
    /\ InitMonitor
    /\ now = 0

\* no request is being handled, and no deploy has been queued or triggered
WebhookIdle == request = NoRequest
DeployIdle == timers = <<>> /\ inflight = {} /\ settled = NoCall
QueryIdle == queried = NoQuery

\* trackDeployment first; then one component at a time
NextFrame ==
    \/ deployments = <<>> /\ CallStartDeployment
    \/ deployments # <<>> /\ DeployIdle /\ QueryIdle /\ NextWebhook
    \/ deployments # <<>> /\ WebhookIdle /\ QueryIdle /\ NextDeploy
    \/ deployments # <<>> /\ WebhookIdle /\ DeployIdle /\ now = 0
          /\ (GetStatus \/ GetAnswered)

SpecFrame == InitFrame /\ [][NextFrame]_vars

-----------------------------------------------------------------------------
(* Vocabulary of the properties *)

\* the handler has answered the request in flight
Handled == request # NoRequest /\ response # NoResponse

\* the handler of the request in flight went as far as handleRevalidation
Dispatched == Handled /\ revalidationResult # NoResult

\* the digest the header carries, as bytes
HeaderDigest(req) == BufferFromHex(ReplaceFirst(SignatureHeader(req), Prefix, <<>>))

\* the header carries the HMAC-SHA256 of the raw body under the configured secret
GenuineSignature(req) == HeaderDigest(req) = HmacSha256(WEBHOOK_SECRET, req.body)

\* the body is a JSON object with event, data (an object) and data.type
StructurallyValid(b) ==
    b.json = "object" /\ Truthy(b.event) /\ b.data = "object" /\ Truthy(b.type)

IsPrefix(s, t) == Len(s) <= Len(t) /\ SubSeq(t, 1, Len(s)) = s

NothingInvalidated == cachePaths = <<>> /\ cacheTags = <<>>

-----------------------------------------------------------------------------
(* C1: signature verification is exact.  Whenever the request carries       *)
(* 'sha256=' + hex(HMAC-SHA256(S, B')) for the configured secret S,         *)
(* verifySignature returns true if B' is the request's own raw body and     *)
(* false if B' is any other body, and the request is answered 401 exactly   *)
(* in the second case.                                                      *)
C1_SignatureExact ==
    request # NoRequest =>
        \A b2 \in OtherBodies(request.body) \cup {request.body} :
            SignatureHeader(request) = SignatureFor(WEBHOOK_SECRET, b2) =>
                /\ VerifySignature(request.body, SignatureHeader(request))
                      = IF b2 = request.body THEN "true" ELSE "false"
                /\ response # NoResponse =>
                      (response.status = 401 <=> b2 # request.body)

\* a request signed for a body that differs from its own only in trailing
\* blanks has been turned away
C1_Witness ==
    /\ Handled
    /\ response.status = 401
    /\ \E b2 \in OtherBodies(request.body) :
          /\ JsonParse(b2) = JsonParse(request.body)
          /\ SignatureHeader(request) = SignatureFor(WEBHOOK_SECRET, b2)

-----------------------------------------------------------------------------
(* C2: signature verification fails closed.  For a missing header, or a     *)
(* header whose digest does not decode to the 32 bytes of a digest (not     *)
(* hex, or of another length), verifySignature returns false and the        *)
(* request is answered 401.                                                 *)
C2_FailsClosed ==
    (Handled /\ (SignatureHeader(request) = <<>>
                 \/ Len(HeaderDigest(request)) # DigestBytes)) =>
        /\ VerifySignature(request.body, SignatureHeader(request)) = "false"
        /\ response.status = 401

-----------------------------------------------------------------------------
(* C3: the pipeline is ordered verifier, validator, dispatcher.  If any     *)
(* path or tag was invalidated, or the dispatcher was entered at all, the   *)
(* request carries the HMAC of its raw body and its payload is              *)
(* structurally valid.                                                      *)
C3_PipelineOrdered ==
    (~NothingInvalidated \/ revalidationResult # NoResult) =>
        /\ request # NoRequest
        /\ GenuineSignature(request)
        /\ StructurallyValid(request.body)

\* a request went through all three stages and invalidated something
C3_Witness ==
    /\ Handled
    /\ response.status = 200
    /\ cachePaths # <<>>
    /\ cacheTags # <<>>

-----------------------------------------------------------------------------
(* C4: a correctly signed request whose body is no JSON, or JSON without    *)
(* event, data or data.type, is answered 400 and invalidates nothing; one   *)
(* with the three fields there (and not empty) reaches the dispatcher       *)
(* whatever data.action and the other fields are.                           *)
C4_MalformedPayload400 ==
    (Handled /\ GenuineSignature(request)) =>
        LET b == request.body
            Lacking == \/ b.json \in {"null", "scalar"}
                       \/ b.json = "object" /\
                             (b.event = Absent \/ b.data # "object" \/ b.type = Absent)
        IN  /\ (b.json = "invalid" \/ Lacking) =>
                  (response.status = 400 /\ NothingInvalidated)
            /\ StructurallyValid(b) => revalidationResult # NoResult

-----------------------------------------------------------------------------
(* C5: the expectations of the e2e error-handling test.  A body that is no  *)
(* JSON sent without signature header is answered 400; a JSON object        *)
(* lacking event and data sent with X-Signature-256: sha256=test is         *)
(* answered 400; a JSON body sent without header or with the header         *)
(* invalid-signature is answered 401.                                       *)
C5_E2EExpectations ==
    Handled =>
        LET b == request.body
            NoFields == b.json = "object" /\ b.event = Absent /\ b.data = Absent
        IN  /\ (b.json = "invalid" /\ SignatureHeader(request) = NoHeader) =>
                  response.status = 400
            /\ (NoFields /\ request.xSignature256 = Text_sha256_test) =>
                  response.status = 400
            /\ (b.json # "invalid" /\ SignatureHeader(request) = NoHeader) =>
                  response.status = 401
            /\ (b.json # "invalid" /\ request.xSignature256 = Text_invalid_signature) =>
                  response.status = 401

-----------------------------------------------------------------------------
(* C6: dispatching a 'post' event with slug s, when no invalidation throws, *)
(* gives success with revalidatedPaths containing /blog, /blog/<s>,         *)
(* /sitemap.xml and /rss.xml and revalidatedTags containing blog-posts,     *)
(* whatever the action; without a slug the paths are exactly the other      *)
(* three.  What the result lists is what was invalidated.                   *)
C6_PostDispatch ==
    (Dispatched /\ request.body.type = "post" /\ ~thrown) =>
        LET slug  == request.body.slug
            paths == Range(revalidationResult.revalidatedPaths)
            tags  == Range(revalidationResult.revalidatedTags)
        IN  /\ revalidationResult.success
            /\ {"/blog", "/sitemap.xml", "/rss.xml"} \subseteq paths
            /\ "blog-posts" \in tags
            /\ Truthy(slug) => ("/blog/" \o slug) \in paths
            /\ ~Truthy(slug) => paths = {"/blog", "/sitemap.xml", "/rss.xml"}
            /\ cachePaths = revalidationResult.revalidatedPaths
            /\ cacheTags = revalidationResult.revalidatedTags

\* a 'delete' of the post foo has been dispatched without a throw
C6_Witness ==
    /\ Dispatched
    /\ request.body.type = "post"
    /\ request.body.slug = "foo"
    /\ request.body.action = "delete"
    /\ ~thrown
    /\ response.status = 200
    /\ Len(cachePaths) = 4

-----------------------------------------------------------------------------
(* C7: dispatching a 'page' event never invalidates /home for the slug      *)
(* 'home'; the invalidations are, in this order and up to the first one     *)
(* that throws, the page path ('/' for 'home', '/<slug>' for another        *)
(* non-empty slug, none without slug), /sitemap.xml and the tag pages; all  *)
(* of them when nothing throws.                                             *)
C7_PageDispatch ==
    (Dispatched /\ request.body.type = "page") =>
        LET slug == request.body.slug
            pagePath == IF slug = "home" THEN <<"/">>
                        ELSE IF Truthy(slug) THEN <<"/" \o slug>>
                        ELSE <<>>
            paths == pagePath \o <<"/sitemap.xml">>
            tags  == <<"pages">>
        IN  /\ slug = "home" => "/home" \notin Range(cachePaths)
            /\ IsPrefix(cachePaths, paths)
            /\ IsPrefix(cacheTags, tags)
            /\ ~thrown => (cachePaths = paths /\ cacheTags = tags)
            /\ revalidationResult.revalidatedPaths = cachePaths
            /\ revalidationResult.revalidatedTags = cacheTags

\* the page 'home' has been dispatched and the root path invalidated
C7_Witness ==
    /\ Dispatched
    /\ request.body.type = "page"
    /\ request.body.slug = "home"
    /\ cachePaths = <<"/", "/sitemap.xml">>
    /\ cacheTags = <<"pages">>

-----------------------------------------------------------------------------
(* C8: dispatching a 'settings' event invalidates, in this order and up to  *)
(* the first one that throws, the paths / and /blog and the tags            *)
(* site-settings, layout and navigation, and nothing else, whatever slug,   *)
(* id and action are; all five when nothing throws.                         *)
C8_SettingsDispatch ==
    (Dispatched /\ request.body.type = "settings") =>
        LET paths == <<"/", "/blog">>
            tags  == <<"site-settings", "layout", "navigation">>
        IN  /\ IsPrefix(cachePaths, paths)
            /\ IsPrefix(cacheTags, tags)
            /\ cacheTags # <<>> => cachePaths = paths
            /\ ~thrown => (cachePaths = paths /\ cacheTags = tags)
            /\ revalidationResult.revalidatedPaths = cachePaths
            /\ revalidationResult.revalidatedTags = cacheTags

\* a 'settings' event that carries a slug, an id and an action has been
\* dispatched in full
C8_Witness ==
    /\ Dispatched
    /\ request.body.type = "settings"
    /\ request.body.slug = "foo"
    /\ request.body.id = "m1"
    /\ request.body.action = "delete"
    /\ Len(cachePaths) = 2
    /\ Len(cacheTags) = 3

-----------------------------------------------------------------------------
(* C9: dispatching a 'media' event invalidates tags only: no path is        *)
(* invalidated for any id, slug and action, and the tags are media and      *)
(* images, in this order and up to the first one that throws.               *)
C9_MediaDispatch ==
    (Dispatched /\ request.body.type = "media") =>
        LET tags == <<"media", "images">>
        IN  /\ cachePaths = <<>>
            /\ revalidationResult.revalidatedPaths = <<>>
            /\ IsPrefix(cacheTags, tags)
            /\ ~thrown => cacheTags = tags
            /\ revalidationResult.revalidatedTags = cacheTags

\* a 'media' event with an id and a slug has been dispatched in full
C9_Witness ==
    /\ Dispatched
    /\ request.body.type = "media"
    /\ request.body.id = "m1"
    /\ request.body.slug = "foo"
    /\ cacheTags = <<"media", "images">>
    /\ response.status = 200

-----------------------------------------------------------------------------
(* C10: a correctly signed, structurally valid event whose data.type is     *)
(* none of post, page, settings, media gets a result with success false, a  *)
(* non-empty error and no paths or tags; nothing is invalidated, and the    *)
(* answer is the handler's own 500 'Revalidation failed' carrying that      *)
(* error, not the 500 of its catch-all.                                     *)
C10_UnknownType ==
    (Handled /\ GenuineSignature(request) /\ StructurallyValid(request.body)
        /\ request.body.type \notin ContentTypes) =>
        /\ revalidationResult # NoResult
        /\ ~revalidationResult.success
        /\ Truthy(revalidationResult.error)
        /\ revalidationResult.revalidatedPaths = <<>>
        /\ revalidationResult.revalidatedTags = <<>>
        /\ NothingInvalidated
        /\ response.status = 500
        /\ response.error = "Revalidation failed"
        /\ response.details = revalidationResult.error

\* an event of type unknown-type has been answered
C10_Witness ==
    /\ Handled
    /\ GenuineSignature(request)
    /\ request.body.type = "unknown-type"
    /\ Truthy(request.body.event)
    /\ response.status = 500

-----------------------------------------------------------------------------
(* Vocabulary of the deploy-hook properties *)

\* the callback of timer h has called triggerDeploy
Triggered(h) == timers[h].state \in {"running", "done"}

\* calls i and j of queueDeployment are successive calls for one environment
Successive(i, j) ==
    /\ i < j
    /\ timers[i].environment = timers[j].environment
    /\ \A k \in DOMAIN timers :
          i < k /\ k < j => timers[k].environment # timers[i].environment

\* the triggerDeploy call made by the callback of timer h is awaited or has
\* just returned
CallOf(h) == {c \in inflight \cup {settled} : c.timer = h}

-----------------------------------------------------------------------------
(* C11: two queueDeployment calls for one environment, the second made
   before the first call's timer has fired, lead to one triggerDeploy, made
   with the second call's reason: the first call's timer never calls
   triggerDeploy, and the call the second timer makes carries the second
   reason. *)
C11_Coalesced ==
    \A i, j \in DOMAIN timers :
       Successive(i, j) /\ i \in timers[j].armedThen =>
          /\ ~Triggered(i)
          /\ \A c \in CallOf(j) : c.reason = timers[j].reason

-----------------------------------------------------------------------------
(* C12: a queueDeployment call cancels every timer of its environment that
   is armed and has not fired, whatever callbacks are in flight: each timer
   that was armed when a later call for its environment was made is
   cleared. *)
C12_CancelsArmed ==
    \A j \in DOMAIN timers :
       \A i \in timers[j].armedThen : timers[i].state = "cleared"

-----------------------------------------------------------------------------
(* C13: a timer that fires calls triggerDeploy for its environment, and
   when that call has returned, with success or failure, the environment
   has no entry in deploymentQueue; so, the calls of queueDeployment being
   finitely many and every fetch settling, every queued environment gets a
   triggerDeploy call and deploymentQueue ends up empty for good. *)
C13_QueueDrains ==
    /\ [][\A h \in DOMAIN timers :
             /\ timers[h].state = "armed" /\ Triggered(h)' =>
                   \E c \in (inflight \cup {settled})' :
                      c.timer = h /\ c.environment = timers[h].environment
             /\ timers[h].state # "done" /\ timers'[h].state = "done" =>
                   deploymentQueue'[timers[h].environment] = NoTimer]_vars
    /\ <>[](/\ \A n \in DOMAIN timers :
                  \E h \in DOMAIN timers :
                     /\ h >= n
                     /\ timers[h].environment = timers[n].environment
                     /\ Triggered(h)
            /\ \A e \in Environments : deploymentQueue[e] = NoTimer)

\* a timer's call of triggerDeploy has failed after its fetch, and the entry
\* of its environment is gone
C13_Witness ==
    /\ settled.timer # NoTimer
    /\ settled.requests = 1
    /\ ~settled.result.success
    /\ timers[settled.timer].state = "done"
    /\ deploymentQueue[settled.environment] = NoTimer

-----------------------------------------------------------------------------
(* C14: triggerDeploy for an environment whose deploy-hook url is empty
   returns {success: false, error} at once and makes no network call, also
   when a queueDeployment timer makes the call: no such call is ever
   awaiting a fetch, and the call that returned has issued no request. *)
C14_NoHookNoFetch ==
    /\ \A c \in inflight : Truthy(deployHooks[c.environment])
    /\ settled # NoCall /\ ~Truthy(deployHooks[settled.environment]) =>
          /\ settled.requests = 0
          /\ settled.outcome = NoOutcome
          /\ ~settled.result.pending /\ ~settled.result.rejected
          /\ ~settled.result.success
          /\ Truthy(settled.result.error)

\* a timer's callback has called triggerDeploy with no hook configured
C14_Witness ==
    /\ settled.timer # NoTimer
    /\ ~Truthy(deployHooks[settled.environment])
    /\ timers[settled.timer].state = "done"

-----------------------------------------------------------------------------
(* C15: triggerDeploy never throws or rejects: whatever the fetch does it
   resolves to an object whose success is true only if the response was 2xx
   and whose error is non-empty when success is false; and a call issues at
   most one HTTP request. *)
C15_AlwaysResolves ==
    /\ \A c \in inflight : c.requests = 1
    /\ settled # NoCall =>
          /\ ~settled.result.pending /\ ~settled.result.rejected
          /\ settled.requests <= 1
          /\ settled.result.success =>
                /\ settled.requests = 1
                /\ settled.outcome.kind = "response"
                /\ ResponseOk(settled.outcome.status)
          /\ ~settled.result.success => Truthy(settled.result.error)

\* a 2xx response whose body is not JSON has come back, and the call failed
C15_Witness ==
    /\ settled.outcome.kind = "response"
    /\ ResponseOk(settled.outcome.status)
    /\ settled.outcome.body = "invalid"
    /\ ~settled.result.success

-----------------------------------------------------------------------------
(* Vocabulary of the deployment-monitor properties *)

MarkTargets ==
    [markBuilding |-> "building", markReady |-> "ready", markFailed |-> "error"]

\* the deployment the last operation wrote
Written == GetDeployment(deployments, lastCall.args.id)

\* the indices of the deployments getBuildMetrics(environment?) counts
Counted(environment) ==
    {i \in DOMAIN deployments :
        Truthy(environment) => deployments[i].environment = environment}

StatusOf(ds, id) == GetDeployment(ds, id).status

-----------------------------------------------------------------------------
(* C16: startDeployment(id, env), then markBuilding(id) or not, then
   markReady(id, url, t) with t > 0 leave getDeployment(id) with status
   'ready', environment env, the url given and duration t. *)
C16_Lifecycle ==
    lifecycle.phase = "ready" /\ TruthyNumber(lastCall.args.duration) =>
       /\ Has(deployments, lifecycle.id)
       /\ Written.id = lifecycle.id
       /\ Written.status = "ready"
       /\ Written.environment = lifecycle.environment
       /\ Written.duration = lastCall.args.duration
       /\ Truthy(lastCall.args.url) => Written.url = lastCall.args.url

\* the sequence has run with markBuilding, for a production deployment
C16_Witness ==
    /\ lifecycle.phase = "ready"
    /\ lifecycle.environment = "production"
    /\ TruthyNumber(lastCall.args.duration)
    /\ Truthy(lastCall.args.url)
    /\ Written.buildLogs # <<>>

-----------------------------------------------------------------------------
(* C17: the monitor never holds more than maxHistory records (50 in the
   code); an operation that writes an id the Map does not hold while it
   holds maxHistory records leaves maxHistory records, without the one
   inserted earliest and with the new id last; the id just written is never
   the one evicted. *)
C17_HistoryBound ==
    /\ Len(deployments) <= maxHistory
    /\ \A i, j \in DOMAIN deployments :
          deployments[i].id = deployments[j].id => i = j
    /\ lastCall.op # "none" =>
          /\ Has(deployments, lastCall.args.id)
          /\ Keys(deployments) =
                IF \E i \in DOMAIN lastCall.keys :
                      lastCall.keys[i] = lastCall.args.id
                THEN lastCall.keys
                ELSE IF Len(lastCall.keys) = maxHistory
                THEN Tail(lastCall.keys) \o <<lastCall.args.id>>
                ELSE lastCall.keys \o <<lastCall.args.id>>

\* an id the full Map did not hold has been written
C17_Witness ==
    /\ lastCall.op # "none"
    /\ Len(lastCall.keys) = maxHistory
    /\ \A i \in DOMAIN lastCall.keys : lastCall.keys[i] # lastCall.args.id
    /\ Len(deployments) = maxHistory

-----------------------------------------------------------------------------
(* C18: getBuildMetrics, overall and for each environment, counts the
   records as totalBuilds, those with status 'ready' as successfulBuilds
   and those with status 'error' as failedBuilds, the two together never
   more than totalBuilds; uptime is 100 when it counts no record, and
   successfulBuilds / totalBuilds * 100 otherwise. *)
C18_Metrics ==
    \A environment \in {Absent} \cup Environments :
       LET metrics == GetBuildMetrics(deployments, environment)
           counted == Counted(environment)
           ready == {i \in counted : deployments[i].status = "ready"}
           failed == {i \in counted : deployments[i].status = "error"}
       IN  /\ metrics.totalBuilds = Cardinality(counted)
           /\ metrics.successfulBuilds = Cardinality(ready)
           /\ metrics.failedBuilds = Cardinality(failed)
           /\ metrics.successfulBuilds + metrics.failedBuilds
                 <= metrics.totalBuilds
           /\ counted = {} => SameRatio(metrics.uptime, Ratio(100, 1))
           /\ counted # {} =>
                 metrics.uptime.num * Cardinality(counted)
                    = Cardinality(ready) * 100 * metrics.uptime.den

\* one environment has no record, the other one ready and one not
C18_Witness ==
    /\ Counted("production") = {}
    /\ GetBuildMetrics(deployments, "staging").totalBuilds = 2
    /\ GetBuildMetrics(deployments, "staging").successfulBuilds = 1
    /\ SameRatio(GetBuildMetrics(deployments, Absent).uptime, Ratio(50, 1))

-----------------------------------------------------------------------------
(* C19: markBuilding, markReady and markFailed validate no transition: on
   an id the Map does not hold they create a record with environment
   'staging', also when the status route runs them with an environment in
   the body, and on a record in any state they set their own status. *)
C19_MergeOnWrite ==
    lastCall.op \in DOMAIN MarkTargets =>
       /\ Has(deployments, lastCall.args.id)
       /\ Written.status = MarkTargets[lastCall.op]
       /\ (\A i \in DOMAIN lastCall.keys : lastCall.keys[i] # lastCall.args.id)
             => Written.environment = "staging"

\* the status route has run markBuilding for production on an unknown id
C19_Witness ==
    /\ lastCall.op = "markBuilding"
    /\ lastCall.via = "POST"
    /\ lastCall.args.environment = "production"
    /\ lastCall.was = Absent
    /\ Written.environment = "staging"

-----------------------------------------------------------------------------
(* C20: 'canceled' comes from outside only: every status is one of pending,
   building, ready, error, canceled, and a record becomes canceled only in
   an updateDeployment that carries status 'canceled' for it, never in
   startDeployment, markBuilding, markReady or markFailed. *)
C20_CanceledExternal ==
    /\ [](\A i \in DOMAIN deployments : deployments[i].status \in Statuses)
    /\ [][\A id \in DeploymentIds :
             /\ StatusOf(deployments', id) = "canceled"
             /\ StatusOf(deployments, id) # "canceled"
             => /\ lastCall'.op = "updateDeployment"
                /\ lastCall'.args.id = id
                /\ lastCall'.args.status = "canceled"]_vars

\* the status route's update has canceled a deployment that was ready
C20_Witness ==
    /\ lastCall.op = "updateDeployment"
    /\ lastCall.via = "POST"
    /\ lastCall.was = "ready"
    /\ Written.status = "canceled"

-----------------------------------------------------------------------------
(* C21: on a record the Map holds, markReady without a build time, and
   markFailed always, leave duration at the time from the record's createdAt
   to the call; a build time given to markReady is the duration instead. *)
C21_ElapsedDuration ==
    /\ lastCall.op \in {"markReady", "markFailed"}
    /\ lastCall.was # Absent
    => Written.duration =
          IF lastCall.op = "markReady" /\ lastCall.args.duration # None
          THEN lastCall.args.duration
          ELSE Some(GetTime(Written.updatedAt) - GetTime(Written.createdAt))

-----------------------------------------------------------------------------
(* C22: getHistory(limit), limit >= 0, returns min(limit, held) of the
   records held, each once, newest createdAt first, and no record left out
   was created later than one returned; getLatestDeployment(env) returns a
   record of env with the greatest createdAt among the records of env, and
   undefined when env has none. *)
C22_HistoryAndLatest ==
    /\ \A limit \in 0..(maxHistory + 1) :
          LET history == GetHistory(deployments, limit)
              held == {deployments[i] : i \in DOMAIN deployments}
              returned == {history[i] : i \in DOMAIN history}
          IN  /\ Len(history) <= limit
              /\ Len(history) = IF limit < Len(deployments) THEN limit
                                ELSE Len(deployments)
              /\ Cardinality(returned) = Len(history)
              /\ returned \subseteq held
              /\ \A i, j \in DOMAIN history :
                    i < j => GetTime(history[i].createdAt)
                                >= GetTime(history[j].createdAt)
              /\ \A d \in held \ returned, r \in returned :
                    GetTime(d.createdAt) <= GetTime(r.createdAt)
    /\ \A environment \in Environments :
          LET latest == GetLatestDeployment(deployments, environment)
          IN  IF Counted(environment) = {} THEN latest = NoDeployment
              ELSE /\ \E i \in Counted(environment) : deployments[i] = latest
                   /\ \A i \in Counted(environment) :
                         GetTime(deployments[i].createdAt)
                            <= GetTime(latest.createdAt)

\* the Map holds an older record before a newer one, both of staging, and
\* none of production
C22_Witness ==
    /\ Len(deployments) = 2
    /\ GetTime(deployments[1].createdAt) < GetTime(deployments[2].createdAt)
    /\ GetHistory(deployments, 1) = <<deployments[2]>>
    /\ GetLatestDeployment(deployments, "staging") = deployments[2]
    /\ GetLatestDeployment(deployments, "production") = NoDeployment

-----------------------------------------------------------------------------
(* C23: only operations of the Deployment Monitor change its collection:
   whatever a webhook request, a queueDeployment call, a timer callback, a
   triggerDeploy call or its return, and a GET of /api/deployment/status do,
   the records and all their fields are after the step what they were; a
   step that changes them is an operation of the monitor. *)
C23_MonitorOnly ==
    [][/\ (\/ webhookVars' # webhookVars
           \/ deployVars' # deployVars
           \/ queried' # queried) => deployments' = deployments
       /\ deployments' # deployments =>
             /\ monitorCalls' = monitorCalls + 1
             /\ lastCall'.op # "none"]_vars

\* a timer callback awaits its fetch while the Map holds a record
C23_Witness ==
    /\ deployments # <<>>
    /\ \E c \in inflight : c.timer # NoTimer

-----------------------------------------------------------------------------
(* Vocabulary of the dispatch *)

\* the calls into next/cache each content type makes, in the order of the
\* calls: all paths come before all tags
Invalidations(body) ==
    CASE body.type = "post" ->
            [paths |-> <<"/blog">>
                       \o (IF Truthy(body.slug) THEN <<"/blog/" \o body.slug>>
                           ELSE <<>>)
                       \o <<"/sitemap.xml", "/rss.xml">>,
             tags |-> <<"blog-posts">>]
      [] body.type = "page" ->
            [paths |-> (IF body.slug = "home" THEN <<"/">>
                        ELSE IF Truthy(body.slug) THEN <<"/" \o body.slug>>
                        ELSE <<>>) \o <<"/sitemap.xml">>,
             tags |-> <<"pages">>]
      [] body.type = "settings" ->
            [paths |-> <<"/", "/blog">>,
             tags |-> <<"site-settings", "layout", "navigation">>]
      [] body.type = "media" ->
            [paths |-> <<>>, tags |-> <<"media", "images">>]
      [] OTHER -> [paths |-> <<>>, tags |-> <<>>]

-----------------------------------------------------------------------------
(* C24: in the dispatch of a content type the first invalidation that
   throws ends the sequence: what was invalidated is the calls before the
   throw, in call order, and none after it; the result has success false,
   the message of the error thrown and exactly those paths and tags; the
   response is 500. *)
C24_FirstThrowAborts ==
    (Dispatched /\ thrown) =>
        LET all == Invalidations(request.body)
        IN  /\ request.body.type \in ContentTypes
            /\ IsPrefix(cachePaths, all.paths)
            /\ IsPrefix(cacheTags, all.tags)
            /\ Len(cachePaths) < Len(all.paths) => cacheTags = <<>>
            /\ Len(cachePaths) + Len(cacheTags)
                  < Len(all.paths) + Len(all.tags)
            /\ ~revalidationResult.success
            /\ revalidationResult.error = CacheErrorMessage
            /\ revalidationResult.revalidatedPaths = cachePaths
            /\ revalidationResult.revalidatedTags = cacheTags
            /\ response.status = 500
            /\ response.error = "Revalidation failed"
            /\ response.details = CacheErrorMessage

\* a 'settings' event whose fourth invalidation, the tag layout, threw
C24_Witness ==
    /\ Dispatched
    /\ thrown
    /\ request.body.type = "settings"
    /\ cachePaths = <<"/", "/blog">>
    /\ cacheTags = <<"site-settings">>
    /\ response.status = 500

-----------------------------------------------------------------------------
(* Vocabulary of the batch *)

\* the values of the operations of one type that did not throw, in the
\* order of the list
RECURSIVE Recorded(_, _, _, _)
Recorded(operations, failing, type, i) ==
    IF i > Len(operations) THEN <<>>
    ELSE (IF operations[i].type = type /\ i \notin failing
          THEN <<operations[i].value>> ELSE <<>>)
         \o Recorded(operations, failing, type, i + 1)

\* the texts of the operations that threw, in the order of the list
RECURSIVE FailedTexts(_, _, _)
FailedTexts(operations, failing, i) ==
    IF i > Len(operations) THEN <<>>
    ELSE (IF i \in failing THEN <<BatchError(operations[i])>> ELSE <<>>)
         \o FailedTexts(operations, failing, i + 1)

-----------------------------------------------------------------------------
(* C25: batchRevalidate attempts every operation of its list, also after
   one has thrown, and records the path or tag of each one that did not
   throw; after the list it throws one Error if and only if an operation
   threw, and the message names every failed operation: a batch that failed
   in part fails as a whole. *)
C25_BatchAggregates ==
    batch.ran =>
       /\ batch.calls = Len(batch.operations)
       /\ batch.revalidatedPaths
             = Recorded(batch.operations, batch.failing, "path", 1)
       /\ batch.revalidatedTags
             = Recorded(batch.operations, batch.failing, "tag", 1)
       /\ batch.error # Absent <=> batch.failing # {}
       /\ batch.failing # {} =>
             batch.error
                = Join(FailedTexts(batch.operations, batch.failing, 1))

\* the first of three operations threw, the other two were recorded, and
\* the batch threw
C25_Witness ==
    /\ batch.ran
    /\ Len(batch.operations) = 3
    /\ batch.failing = {1}
    /\ Len(batch.revalidatedPaths) + Len(batch.revalidatedTags) = 2
    /\ batch.error = BatchError(batch.operations[1])

-----------------------------------------------------------------------------
(* Vocabulary of the status route and of the merge *)

SupportedActions == {"start", "building", "ready", "failed", "update"}

\* the step is a POST of the status route
Posted == lastCall'.via = "POST" /\ monitorCalls' = monitorCalls + 1

\* the step is an operation on a record that stays in the Map
Stays(id) ==
    /\ monitorCalls' = monitorCalls + 1
    /\ Has(deployments, id)
    /\ Has(deployments', id)

\* url, error and duration, once there, are there after the step
FieldsKept(old, new) ==
    /\ Truthy(old.url) => Truthy(new.url)
    /\ Truthy(old.error) => Truthy(new.error)
    /\ TruthyNumber(old.duration) => TruthyNumber(new.duration)

\* createdAt stays under start, building, ready and failed, and a failed
\* record made ready keeps its error
CreatedKept(old, new) ==
    /\ lastCall'.op \in {"startDeployment", "markBuilding", "markReady",
                         "markFailed"}
          => new.createdAt = old.createdAt
    /\ lastCall'.op = "markReady" /\ lastCall'.args.id = new.id
                                  /\ old.status = "error"
          => new.status = "ready" /\ new.error = old.error

-----------------------------------------------------------------------------
(* C26: POST /api/deployment/status without deploymentId, without
   environment, or with an action other than start, building, ready, failed,
   update is answered 400 and leaves the monitor's deployments as they were;
   with both fields and a supported action the response carries the record
   of deploymentId as the operation left it. *)
C26_StatusPost ==
    [][Posted =>
         IF \/ ~Truthy(lastCall'.args.id)
            \/ ~Truthy(lastCall'.args.environment)
            \/ lastCall'.route.action \notin SupportedActions
         THEN /\ lastCall'.code = 400
              /\ deployments' = deployments
         ELSE /\ lastCall'.code = 200
              /\ Has(deployments', lastCall'.args.id)
              /\ lastCall'.route.deployment
                    = GetDeployment(deployments', lastCall'.args.id)]_vars

-----------------------------------------------------------------------------
(* C27: eviction follows the order of first insertion, which no update
   refreshes: an operation on an id the Map holds leaves the keys and their
   order as they were, and one that writes a new id into the full Map evicts
   the first key, the id inserted earliest, and no other, also when that id
   was the one updated last. *)
C27_EvictionOrder ==
    lastCall.op # "none" =>
       IF \E i \in DOMAIN lastCall.keys : lastCall.keys[i] = lastCall.args.id
       THEN Keys(deployments) = lastCall.keys
       ELSE Len(lastCall.keys) = maxHistory =>
               /\ ~Has(deployments, lastCall.keys[1])
               /\ \A i \in 2..maxHistory : Has(deployments, lastCall.keys[i])
               /\ Len(deployments) = maxHistory

\* a new id has evicted the first key right after an operation updated it
C27_Witness ==
    /\ lastCall.op # "none"
    /\ Len(lastCall.keys) = maxHistory
    /\ \A i \in DOMAIN lastCall.keys : lastCall.keys[i] # lastCall.args.id
    /\ lastCall.previous = lastCall.keys[1]
    /\ ~Has(deployments, lastCall.previous)

-----------------------------------------------------------------------------
(* C28: no merge clears a field: on a record that stays in the Map, url,
   error, duration and a non-empty buildLogs, once there, are there after
   every later operation; createdAt stays under start, building, ready and
   failed; a failed record made ready is 'ready' with its error. *)
C28_NeverCleared ==
    [][\A id \in DeploymentIds :
          Stays(id) =>
             LET old == GetDeployment(deployments, id)
                 new == GetDeployment(deployments', id)
             IN  /\ FieldsKept(old, new)
                 /\ old.buildLogs # <<>> => new.buildLogs # <<>>
                 /\ CreatedKept(old, new)]_vars

\* C28 as the code has it: buildLogs stay unless the operation passes an
\* array, which replaces them also when it is empty
C28_ReplacedByArray ==
    [][\A id \in DeploymentIds :
          Stays(id) =>
             LET old == GetDeployment(deployments, id)
                 new == GetDeployment(deployments', id)
             IN  /\ FieldsKept(old, new)
                 /\ \/ new.buildLogs = old.buildLogs
                    \/ /\ lastCall'.args.id = id
                       /\ lastCall'.args.buildLogs # None
                       /\ new.buildLogs = lastCall'.args.buildLogs[1]
                 /\ CreatedKept(old, new)]_vars

\* a failed record with logs has been made ready and carries its error, its
\* duration and its logs
C28_Witness ==
    /\ lastCall.op = "markReady"
    /\ lastCall.was = "error"
    /\ Written.status = "ready"
    /\ Truthy(Written.error)
    /\ Truthy(Written.url)
    /\ Written.buildLogs # <<>>

-----------------------------------------------------------------------------
(* C29: getBuildMetrics(env).lastBuildTime, with an environment and without
   one, is the createdAt of the record created last among those counted, and
   undefined exactly when none is counted. *)
C29_LastBuildTime ==
    \A environment \in {Absent} \cup Environments :
       LET metrics == GetBuildMetrics(deployments, environment)
           counted == Counted(environment)
       IN  /\ metrics.lastBuildTime = Absent <=> counted = {}
           /\ counted # {} =>
                 /\ \E i \in counted :
                       deployments[i].createdAt = metrics.lastBuildTime
                 /\ \A i \in counted :
                       GetTime(deployments[i].createdAt)
                          <= GetTime(metrics.lastBuildTime)

-----------------------------------------------------------------------------
(* Vocabulary of the debounce per environment *)

\* the environment the step acts for: the one queueDeployment is called
\* with, or the one of the triggerDeploy call that is made or returns
Actors ==
    IF Len(timers') > Len(timers)
    THEN {timers'[Len(timers')].environment}
    ELSE {c.environment :
             c \in (inflight' \ inflight) \cup (inflight \ inflight')
                      \cup ({settled'} \ {NoCall})}

-----------------------------------------------------------------------------
(* C30: the debounce state is per environment: a timer is cleared only by a
   later queueDeployment call for its own environment; a queueDeployment
   call, a timer callback or a triggerDeploy return for one environment
   leaves the deploymentQueue entry and the timers of the other as they
   were; so every environment that was queued gets a triggerDeploy call of
   its own. *)
C30_PerEnvironment ==
    /\ [](\A h \in DOMAIN timers :
             timers[h].state = "cleared" =>
                \E j \in DOMAIN timers :
                   /\ j > h
                   /\ timers[j].environment = timers[h].environment
                   /\ timers[j].found = h)
    /\ [][\A environment \in Environments \ Actors :
             /\ deploymentQueue'[environment] = deploymentQueue[environment]
             /\ \A h \in DOMAIN timers :
                   timers[h].environment = environment
                      => timers'[h] = timers[h]]_vars
    /\ <>[](\A h \in DOMAIN timers :
               \E k \in DOMAIN timers :
                  /\ timers[k].environment = timers[h].environment
                  /\ Triggered(k))

\* staging and production were queued at the same time, the first with a
\* delay, and the timer of each has called triggerDeploy
C30_Witness ==
    /\ Len(timers) >= 2
    /\ timers[1].environment # timers[2].environment
    /\ timers[1].delayMs = 1
    /\ timers[1].armedAt = timers[2].armedAt
    /\ Triggered(1)
    /\ Triggered(2)

=============================================================================
